---- MODULE Spec2Model ----
(***************************************************************************)
(* Model of compress.py: the directory run (compress_directory driven by   *)
(* the generator _iter_image_files) and the quality/resize search loop of  *)
(* _compress_image.                                                        *)
(*                                                                         *)
(* The JPEG encoder is an external library: the byte length of one encode  *)
(* is drawn from 1..MaxSize at every attempt.  A file's content is         *)
(* abstracted to what the code reads from it: whether Image.open accepts   *)
(* it, its byte size, its format and its pixel dimensions.  resize_step is *)
(* a rational <<num, den>>; int(width * resize_step) is the floor of the   *)
(* exact product, which is what the float product gives for the values     *)
(* and dimensions used here.                                               *)
(***************************************************************************)
EXTENDS Integers, Sequences, FiniteSets, TLC

(* ------------------------------ bounds -------------------------------- *)
MaxSize == 3          \* encoder outputs and file sizes range over 1..MaxSize
MaxAttempts == 4      \* the attempt counter (bookkeeping) saturates here
MaxRuns == 2          \* compress_directory is invoked at most this often

(* ------------------------- program constants -------------------------- *)
InitialQuality == 95  \* quality = 95
QualityCap == 95      \* min(95, ...)
MinDim == 1           \* max(1, ...)
None == 0             \* last_buffer: Optional[BytesIO] = None

OutputFormat == "JPEG"

patterns == <<"jpg", "jpeg", "png", "webp", "bmp">>

NoteNone == [text |-> "", fmt |-> "", final |-> 0]
NoteLimit == [text |-> "limit", fmt |-> "", final |-> 0]
NoteBestEffort == [text |-> "best_effort", fmt |-> "", final |-> 0]
NoteUnknown == [text |-> "unknown", fmt |-> "", final |-> 0]

(* --------------------------- the directory ---------------------------- *)
Names == {"a.jpg", "sub/b.png", "notes.txt"}

Ext(n) ==
    CASE n = "a.jpg" -> "jpg"
      [] n = "sub/b.png" -> "png"
      [] OTHER -> "txt"

InSubdir(n) == n = "sub/b.png"

ImageNames == {n \in Names : \E i \in DOMAIN patterns : Ext(n) = patterns[i]}

Corrupt == [ok |-> FALSE, size |-> 2, fmt |-> "", w |-> 0, h |-> 0]

Contents ==
    { Corrupt,
      [ok |-> TRUE, size |-> 3, fmt |-> "PNG", w |-> 3, h |-> 2],
      [ok |-> TRUE, size |-> 1, fmt |-> "JPEG", w |-> 2, h |-> 2] }

(* --------------------------- the requests ----------------------------- *)
TargetSizes == {1, 2}
MinQualities == {1, 60, 95, 100}
QualitySteps == {0, 40, 100}
ResizeSteps == {<<1, 100>>, <<1, 2>>, <<9, 10>>}

VARIABLES
    disk,           \* file name -> content
    target_size, min_quality, quality_step, resize_step, recursive,
    run,            \* number of the current compress_directory invocation
    pc,             \* "for" | "loop" | "exit" | "returned" | "raised"
    patIdx,         \* _iter_image_files: index of the pattern being globbed
    globbed,        \* _iter_image_files: files the current glob has yielded
    enumerated,     \* bookkeeping: the paths yielded so far, in order
    results,        \* compress_directory: results
    image_path, original_size, img_format,
    quality, width, height, last_buffer, note,
    attempts,       \* bookkeeping: encode attempts of this invocation
    first_size,     \* bookkeeping: size of the first encode attempt
    last_size,      \* bookkeeping: size of the latest encode attempt
    orig_dims,      \* bookkeeping: working_img.size right after decoding
    writes,         \* bookkeeping: write_bytes calls of this invocation
    disk0           \* bookkeeping: disk when this invocation started

params == <<target_size, min_quality, quality_step, resize_step, recursive>>
iter == <<patIdx, globbed, enumerated>>
locals == <<image_path, original_size, img_format, quality, width, height,
            last_buffer, note>>
ghost == <<attempts, first_size, last_size, orig_dims, writes, disk0>>
vars == <<disk, params, run, pc, iter, results, locals, ghost>>

Max(a, b) == IF a >= b THEN a ELSE b
Min(a, b) == IF a <= b THEN a ELSE b

(* ------------------------- _iter_image_files -------------------------- *)
\* the second pattern is "*.jp*g", which also matches "*.jpg"
MatchesOverlapping(n, p, rec) ==
    /\ Ext(n) = patterns[p] \/ (p = 2 /\ Ext(n) = "jpg")
    /\ rec \/ ~InSubdir(n)

\* rglob is used whatever the flag says
MatchesRecursively(n, p, rec) == Ext(n) = patterns[p]

Matches(n, p, rec) == Ext(n) = patterns[p] /\ (rec \/ ~InSubdir(n))

Pending(p, idx, done) ==
    {n \in Names : Matches(n, p, recursive) /\ (p = idx => n \notin done)}

\* the pattern the generator yields from next (0: the generator is exhausted)
NextPattern(idx, done) ==
    IF \E p \in idx..Len(patterns) : Pending(p, idx, done) # {}
    THEN CHOOSE p \in idx..Len(patterns) :
            /\ Pending(p, idx, done) # {}
            /\ \A q \in idx..(p - 1) : Pending(q, idx, done) = {}
    ELSE 0

(* -------------------------- _compress_image --------------------------- *)
\* a buffer of exactly target_size bytes is rejected
AcceptsStrict(sz) == sz < target_size

Accepts(sz) == sz <= target_size

\* the test looks one step ahead: quality is lowered only while the lowered
\* value stays above min_quality
CanLowerAhead(q) == q - quality_step > min_quality

CanLower(q) == q > min_quality

\* the floor at min_quality is forgotten
LowerQualityNoFloor(q) == q - quality_step

\* the decrement is forgotten
LowerQualityStuck(q) == Max(min_quality, q)

LowerQuality(q) == Max(min_quality, q - quality_step)

\* the clamp to one pixel is forgotten
ScaleDimNoClamp(d) == (d * resize_step[1]) \div resize_step[2]

ScaleDim(d) == Max(MinDim, (d * resize_step[1]) \div resize_step[2])

ResetQuality(q) == Min(QualityCap, Max(min_quality, q))

WriteBytes(d, f, buf, w, h) ==
    [d EXCEPT ![f] = [ok |-> TRUE, size |-> buf, fmt |-> OutputFormat,
                      w |-> w, h |-> h]]

\* the comparison is the wrong way round
SucceededInverted(final) == final >= target_size

\* a file of exactly target_size bytes counts as a failure
SucceededStrict(final) == final < target_size

Succeeded(final) == final <= target_size

\* the format-conversion note is never set
FinalNoteNoConversion(nt, success, final, fmt) ==
    LET n1 == IF ~success /\ nt.text = "" THEN NoteBestEffort ELSE nt
    IN  IF success /\ n1.text # "" THEN [n1 EXCEPT !.final = final] ELSE n1

\* the format-conversion note replaces whatever note was set before
FinalNoteConversionWins(nt, success, final, fmt) ==
    LET n1 == IF ~success /\ nt.text = "" THEN NoteBestEffort ELSE nt
        n2 == IF success /\ n1.text # "" THEN [n1 EXCEPT !.final = final] ELSE n1
    IN  IF fmt # OutputFormat
        THEN [text |-> "converted", fmt |-> fmt, final |-> 0]
        ELSE n2

FinalNote(nt, success, final, fmt) ==
    LET n1 == IF ~success /\ nt.text = "" THEN NoteBestEffort ELSE nt
        n2 == IF success /\ n1.text # "" THEN [n1 EXCEPT !.final = final] ELSE n1
    IN  IF n2.text = "" /\ fmt # OutputFormat
        THEN [text |-> "converted", fmt |-> fmt, final |-> 0]
        ELSE n2

CompressResult(p, o, f, s, n) ==
    [path |-> p, original_size |-> o, final_size |-> f, succeeded |-> s,
     note |-> n]

Init ==
    /\ disk \in [Names -> Contents]
    /\ disk["notes.txt"] = Corrupt
    /\ target_size \in TargetSizes
    /\ min_quality \in MinQualities
    /\ quality_step \in QualitySteps
    /\ resize_step \in ResizeSteps
    /\ recursive \in BOOLEAN
    /\ run = 1
    /\ pc = "for"
    /\ patIdx = 1
    /\ globbed = {}
    /\ enumerated = <<>>
    /\ results = <<>>
    /\ image_path = ""
    /\ original_size = 0
    /\ img_format = ""
    /\ quality = InitialQuality
    /\ width = 0
    /\ height = 0
    /\ last_buffer = None
    /\ note = NoteNone
    /\ attempts = 0
    /\ first_size = 0
    /\ last_size = 0
    /\ orig_dims = <<0, 0>>
    /\ writes = 0
    /\ disk0 = disk

\* the generator yields f: the for loop calls _compress_image(f), which
\* stats and decodes the file and initialises the search (lines 146, 53-62)
Yield(f) ==
    LET p == NextPattern(patIdx, globbed) IN
    /\ p # 0
    /\ f \in Pending(p, patIdx, globbed)
    /\ patIdx' = p
    /\ globbed' = IF p = patIdx THEN globbed \cup {f} ELSE {f}
    /\ enumerated' = Append(enumerated, f)
    /\ image_path' = f
    /\ original_size' = disk[f].size
    /\ disk0' = disk
    /\ writes' = 0
    /\ attempts' = 0
    /\ first_size' = 0
    /\ last_size' = 0
    /\ last_buffer' = None
    /\ note' = NoteNone
    /\ quality' = InitialQuality

\* Image.open succeeds (lines 55-57); a decoded file always carries its
\* format name, in upper case, so `img.format or "JPEG"` is the file's format
ForNextOpened ==
    /\ pc = "for"
    /\ \E f \in Names :
        /\ Yield(f)
        /\ disk[f].ok
        /\ img_format' = disk[f].fmt
        /\ width' = disk[f].w
        /\ height' = disk[f].h
        /\ orig_dims' = <<disk[f].w, disk[f].h>>
    /\ pc' = "loop"
    /\ UNCHANGED <<disk, params, run, results>>

\* Image.open raises; nothing catches it in _compress_image or in
\* compress_directory, so the run ends with the exception
ForNextOpenRaises ==
    /\ pc = "for"
    /\ \E f \in Names :
        /\ Yield(f)
        /\ ~disk[f].ok
    /\ pc' = "raised"
    /\ UNCHANGED <<disk, params, run, results, img_format, width, height,
                   orig_dims>>

\* every iteration writes the buffer it has just encoded to the file
LoopFrameEager ==
    /\ disk' = WriteBytes(disk, image_path, 1, width, height)
    /\ writes' = writes + 1
    /\ UNCHANGED <<params, run, iter, results, image_path,
                   original_size, img_format, orig_dims, disk0>>

\* lines 64-85 never touch the file system, the request or the run
LoopFrame ==
    UNCHANGED <<disk, params, run, iter, results, image_path,
                original_size, img_format, orig_dims, writes, disk0>>

\* one iteration of `while True` (lines 64-85); sz is the encoded size
LoopIteration(sz) ==
    /\ pc = "loop"
    /\ attempts' = IF attempts < MaxAttempts THEN attempts + 1 ELSE attempts
    /\ first_size' = IF attempts = 0 THEN sz ELSE first_size
    /\ last_size' = sz
    /\ IF Accepts(sz)
       THEN /\ last_buffer' = sz
            /\ pc' = "exit"
            /\ UNCHANGED <<quality, width, height, note>>
       ELSE IF CanLower(quality)
       THEN /\ quality' = LowerQuality(quality)
            /\ UNCHANGED <<pc, width, height, last_buffer, note>>
       ELSE LET new_width == ScaleDim(width)
                new_height == ScaleDim(height)
            IN  IF <<new_width, new_height>> = <<width, height>>
                THEN /\ note' = NoteLimit
                     /\ last_buffer' = sz
                     /\ pc' = "exit"
                     /\ UNCHANGED <<quality, width, height>>
                ELSE /\ width' = new_width
                     /\ height' = new_height
                     /\ quality' = ResetQuality(quality)
                     /\ UNCHANGED <<pc, last_buffer, note>>
    /\ LoopFrame

Encode == \E sz \in 1..MaxSize : LoopIteration(sz)

\* lines 87-115 and the append of line 154
Finish ==
    /\ pc = "exit"
    /\ IF last_buffer = None
       THEN /\ results' = Append(results,
                    CompressResult(image_path, original_size, original_size,
                                   FALSE, NoteUnknown))
            /\ UNCHANGED <<disk, note, writes>>
       ELSE LET d == WriteBytes(disk, image_path, last_buffer, width, height)
                final_size == d[image_path].size
                success == Succeeded(final_size)
                n == FinalNote(note, success, final_size, img_format)
            IN  /\ disk' = d
                /\ writes' = writes + 1
                /\ note' = n
                /\ results' = Append(results,
                        CompressResult(image_path, original_size, final_size,
                                       success, n))
    /\ pc' = "for"
    /\ UNCHANGED <<params, run, iter, image_path, original_size, img_format,
                   quality, width, height, last_buffer, attempts, first_size,
                   last_size, orig_dims, disk0>>

\* the generator is exhausted: compress_directory returns results
ForEnd ==
    /\ pc = "for"
    /\ NextPattern(patIdx, globbed) = 0
    /\ pc' = "returned"
    /\ UNCHANGED <<disk, params, run, iter, results, locals, ghost>>

\* the program is started again on the same directory with the same request
Rerun ==
    /\ pc = "returned"
    /\ run < MaxRuns
    /\ run' = run + 1
    /\ pc' = "for"
    /\ patIdx' = 1
    /\ globbed' = {}
    /\ enumerated' = <<>>
    /\ results' = <<>>
    /\ UNCHANGED <<disk, params, locals, ghost>>

Next ==
    \/ ForNextOpened
    \/ ForNextOpenRaises
    \/ Encode
    \/ Finish
    \/ ForEnd
    \/ Rerun

Spec == Init /\ [][Next]_vars

FairSpec == Spec /\ WF_vars(Next)

TypeOK ==
    /\ pc \in {"for", "loop", "exit", "returned", "raised"}
    /\ quality \in 0..100
    /\ last_buffer \in 0..MaxSize
    /\ attempts \in 0..MaxAttempts
(* ------------------------------ claims -------------------------------- *)
\* the invocation of _compress_image that was started last has returned
Returned == Len(results) = Len(enumerated) /\ Len(results) > 0

LastResult == results[Len(results)]

\* the variant of the search loop: dimensions first, then quality
Rank == (width + height) * (InitialQuality + 1) + Max(quality - min_quality, 0)

\* C1: with quality_step >= 1 (min_quality in 1..100, 0 < resize_step < 1,
\* any image of at least 1x1, any encoder output size) every iteration that
\* stays in the loop strictly decreases a non-negative variant, so the loop
\* is left after finitely many iterations, and the result is then returned
\* to the for loop of compress_directory.
C1_LoopTerminates ==
    /\ [][(pc = "loop" /\ pc' = "loop" /\ quality_step >= 1) =>
            (Rank' < Rank /\ Rank' >= 0)]_vars
    /\ (pc = "loop" /\ quality_step >= 1) ~> (pc = "for" /\ Returned)

\* a 2x2 image, min_quality = 1, resize_step = 0.01: the loop has left
\* through the unchanged-dimensions exit at 1x1
C1_Witness ==
    /\ pc = "exit"
    /\ note = NoteLimit
    /\ orig_dims = <<2, 2>>
    /\ <<width, height>> = <<1, 1>>
    /\ min_quality = 1
    /\ quality_step >= 1
    /\ resize_step = <<1, 100>>

\* C2: an invocation on a file that cannot be decoded ends with a result
\* for that file (succeeded = false, final_size = original_size, the generic
\* failure note) and an unmodified file, not with an escaping error.
C2_DecodeFailureIsAResult ==
    (image_path # "" /\ Len(enumerated) > 0 /\ ~disk0[image_path].ok) =>
        /\ pc # "raised"
        /\ Returned
        /\ LastResult.path = image_path
        /\ ~LastResult.succeeded
        /\ LastResult.final_size = LastResult.original_size
        /\ LastResult.note = NoteUnknown
        /\ disk = disk0

\* C3: a failing file never aborts the run: when the run has ended, every
\* file the enumerator has to yield has been yielded and has its result.
C3_FailureDoesNotAbort ==
    pc \in {"raised", "returned"} =>
        /\ NextPattern(patIdx, globbed) = 0
        /\ Len(results) = Len(enumerated)

\* C4: a result returned after the loop accepted a buffer has final_size =
\* the length of the accepted buffer = the size of the file as written,
\* succeeded <=> final_size <= target_size, and original_size = the size
\* the file had before the invocation.
C4_ResultSizes ==
    /\ \A i \in DOMAIN results :
        /\ results[i].final_size = disk[results[i].path].size
        /\ results[i].succeeded <=> results[i].final_size <= target_size
    /\ Returned =>
        /\ LastResult.final_size = last_buffer
        /\ LastResult.original_size = disk0[image_path].size

\* a result of exactly target_size bytes for a file that was larger
C4_Witness ==
    /\ Returned
    /\ LastResult.succeeded
    /\ LastResult.final_size = target_size
    /\ LastResult.original_size > target_size

\* C5: the file is written exactly once by an invocation that returns a
\* result, only after the loop has exited (during the loop the whole disk is
\* as it was when the invocation started), and not at all by an invocation
\* that ends with the decode error.
C5_SingleWriteAfterLoop ==
    /\ pc \in {"loop", "exit", "raised"} => writes = 0 /\ disk = disk0
    /\ Returned =>
        /\ writes = 1
        /\ \A n \in Names \ {image_path} : disk[n] = disk0[n]

\* the invocation went through several iterations before its single write
C5_Witness ==
    /\ Returned
    /\ writes = 1
    /\ attempts >= 3
    /\ disk # disk0

\* C6: if the first encode attempt (quality 95, original dimensions) is
\* <= target_size, it is the only attempt: quality and dimensions are
\* untouched and the result has succeeded = true, final_size <= target_size.
C6_FirstFit ==
    (attempts >= 1 /\ first_size <= target_size) =>
        /\ attempts = 1
        /\ pc # "loop"
        /\ quality = InitialQuality
        /\ <<width, height>> = orig_dims
        /\ last_buffer = first_size
        /\ Returned =>
            /\ LastResult.succeeded
            /\ LastResult.final_size <= target_size
            /\ <<disk[image_path].w, disk[image_path].h>> = orig_dims

\* the first attempt is exactly target_size bytes and has been returned
C6_Witness ==
    /\ Returned
    /\ attempts = 1
    /\ first_size = target_size
    /\ LastResult.succeeded

\* C7: every iteration that does not exit strictly decreases quality or
\* strictly shrinks the dimensions, and none increases quality, width or
\* height, for every quality_step the request admits.
C7_Monotone ==
    [][(pc = "loop" /\ pc' = "loop") =>
        /\ quality' <= quality /\ width' <= width /\ height' <= height
        /\ \/ quality' < quality
           \/ width' < width
           \/ height' < height]_vars

\* C8: a second run with the same target_size on a file that the previous
\* run compressed to target_size or less is accepted on its first attempt.
C8_RerunStable ==
    (run >= 2 /\ Len(enumerated) > 0 /\ attempts >= 1
        /\ disk0[image_path].size <= target_size) =>
            first_size <= target_size

\* C9 as stated: whenever the input format is not JPEG, the note of the
\* result records the conversion, whatever the outcome.
C9_ConversionAlwaysNoted ==
    (Returned /\ img_format # OutputFormat) =>
        LastResult.note.text = "converted"

\* C9 amended: when the input format is not JPEG, the note records the
\* conversion (and the input format) exactly when the result succeeded;
\* a result that did not succeed carries the loop's note instead.
C9_ConversionNotedOnSuccess ==
    (Returned /\ img_format # OutputFormat) =>
        /\ LastResult.succeeded <=> LastResult.note.text = "converted"
        /\ LastResult.succeeded => LastResult.note.fmt = img_format
        /\ ~LastResult.succeeded => LastResult.note = NoteLimit

C9_Witness ==
    /\ Returned
    /\ img_format = "PNG"
    /\ LastResult.succeeded
    /\ LastResult.note = [text |-> "converted", fmt |-> "PNG", final |-> 0]

\* C10: the paths are processed one at a time in enumeration order: the
\* results are, in order, those of the enumerated paths, at most the last
\* enumerated path is in progress, no path is enumerated twice, and a
\* returning run has exactly one result per matching file.
C10_OneResultPerPathInOrder ==
    /\ Len(results) <= Len(enumerated)
    /\ Len(enumerated) <= Len(results) + 1
    /\ \A i \in DOMAIN results : results[i].path = enumerated[i]
    /\ \A i, j \in DOMAIN enumerated :
        enumerated[i] = enumerated[j] => i = j
    /\ pc \in {"loop", "exit"} =>
        /\ Len(enumerated) = Len(results) + 1
        /\ image_path = enumerated[Len(enumerated)]
    /\ pc = "returned" =>
        /\ Len(results) = Len(enumerated)
        /\ {enumerated[i] : i \in DOMAIN enumerated} =
            {n \in ImageNames : recursive \/ ~InSubdir(n)}

\* a run over two files has returned
C10_Witness ==
    /\ pc = "returned"
    /\ Len(results) = 2
    /\ results[1].path # results[2].path
\* C11: the image in the subdirectory is enumerated (and so gets a result
\* and is rewritten) if and only if recursive is set; without it only the
\* files directly in the directory are enumerated and no step ever changes
\* a file of the subdirectory.
C11_SubdirOnlyWhenRecursive ==
    /\ [](\A i \in DOMAIN enumerated : InSubdir(enumerated[i]) => recursive)
    /\ [](pc = "returned" =>
            \A n \in ImageNames :
                (\E i \in DOMAIN results : results[i].path = n)
                    <=> (recursive \/ ~InSubdir(n)))
    /\ [][~recursive =>
            \A n \in Names : InSubdir(n) => disk'[n] = disk[n]]_vars

\* a recursive run has returned with a result for the rewritten subdirectory
\* image
C11_Witness ==
    /\ pc = "returned"
    /\ recursive
    /\ \E i \in DOMAIN results : InSubdir(results[i].path)
    /\ disk["sub/b.png"].fmt = OutputFormat

\* an iteration that resized the working image
Resized == pc = "loop" /\ pc' = "loop" /\ <<width', height'>> # <<width, height>>

\* C12: when min_quality < 95, the attempt that follows a resize runs at a
\* quality strictly above min_quality.
C12_ResetRestoresHeadroom ==
    [][(Resized /\ min_quality < QualityCap) => quality' > min_quality]_vars

\* C13: no result has succeeded = true together with the "cannot compress
\* further" note, and no note ever has the achieved size appended.
C13_LimitNoteNeverWithSuccess ==
    \A i \in DOMAIN results :
        /\ ~(results[i].succeeded /\ results[i].note.text = "limit")
        /\ results[i].note.final = 0

\* a result carries the "cannot compress further" note (and failed)
C13_Witness ==
    /\ Returned
    /\ LastResult.note = NoteLimit
    /\ ~LastResult.succeeded
    /\ LastResult.final_size > target_size
ConversionNote(fmt) == [text |-> "converted", fmt |-> fmt, final |-> 0]

\* C14: the note of a result is the conversion note if and only if the input
\* format is not JPEG and neither the loop's note nor the best-effort note
\* was set; the final note is always exactly one of: empty, the loop's note,
\* the best-effort note, the conversion note.
C14_NotePrecedence ==
    /\ [][(pc = "exit" /\ pc' = "for") =>
            LET r == results'[Len(results')] IN
            /\ r.note.text = "converted" <=>
                (img_format # OutputFormat /\ note.text = "" /\ r.succeeded)
            /\ note.text # "" => r.note = note]_vars
    /\ [](\A i \in DOMAIN results :
            results[i].note \in
                {NoteNone, NoteLimit, NoteBestEffort, ConversionNote("PNG")})

\* a PNG whose result keeps the loop's note: the conversion is not recorded
C14_Witness ==
    /\ Returned
    /\ img_format = "PNG"
    /\ LastResult.note = NoteLimit

\* C15: a resize or the unchanged-dimensions exit happens only in an
\* iteration whose encode exceeded target_size while quality <= min_quality;
\* while quality > min_quality an over-target encode stays in the loop,
\* leaves width and height unchanged and does not raise quality (it lowers
\* it, not below min_quality, when quality_step >= 1).
C15_QualityBeforeResize ==
    [][pc = "loop" =>
        /\ (Resized \/ (pc' = "exit" /\ note' = NoteLimit)) =>
            (quality <= min_quality /\ last_size' > target_size)
        /\ (quality > min_quality /\ last_size' > target_size) =>
            /\ pc' = "loop"
            /\ <<width', height'>> = <<width, height>>
            /\ quality' <= quality
            /\ quality_step >= 1 =>
                (quality' < quality /\ quality' >= min_quality)]_vars

\* quality went down in more than one step before the image was resized
C15_Witness ==
    /\ pc = "loop"
    /\ <<width, height>> # orig_dims
    /\ min_quality = 1
    /\ quality_step = 40
    /\ quality = min_quality

\* C16: an iteration stays in the loop only if its encode exceeded
\* target_size, the accept exit is taken by the first encode that is
\* <= target_size, no encode follows an exit, and the bytes written are those
\* of that last encode at the current dimensions.
C16_FirstFitAcceptance ==
    /\ [](pc = "loop" /\ attempts >= 1 =>
            (last_size > target_size /\ first_size > target_size))
    /\ [][(pc = "loop" /\ pc' = "loop") => last_size' > target_size]_vars
    /\ [][(pc = "loop" /\ pc' = "exit" /\ note' = NoteNone) =>
            (last_size' <= target_size /\ last_buffer' = last_size')]_vars
    /\ [][pc = "exit" =>
            /\ attempts' = attempts
            /\ last_size' = last_size
            /\ disk'[image_path] =
                [ok |-> TRUE, size |-> last_size, fmt |-> OutputFormat,
                 w |-> width, h |-> height]]_vars

\* success after several rejected attempts
C16_Witness ==
    /\ Returned
    /\ LastResult.succeeded
    /\ attempts >= 3
    /\ first_size > target_size
    /\ last_size <= target_size
\* C17 as stated: for every min_quality in 1..100 and quality_step >= 1,
\* every encode attempt uses a quality q with min_quality <= q <= 95.
C17_QualityWithinBounds ==
    (pc = "loop" /\ quality_step >= 1) =>
        (min_quality <= quality /\ quality <= QualityCap)

\* C17 amended: every encode attempt uses a quality q with
\* min(min_quality, 95) <= q <= 95; for min_quality above 95 every attempt
\* runs at 95, below min_quality.
C17_QualityWithinCappedBounds ==
    (pc \in {"loop", "exit"} /\ quality_step >= 1) =>
        /\ quality <= QualityCap
        /\ min_quality <= QualityCap => min_quality <= quality
        /\ min_quality > QualityCap => quality = QualityCap

\* an attempt at min_quality = 60 on the resized image, after the reset
C17_Witness ==
    /\ pc = "loop"
    /\ quality_step >= 1
    /\ min_quality = 60
    /\ quality = 60
    /\ <<width, height>> # orig_dims

\* C18: width and height are at least 1 in every loop state; the
\* unchanged-dimensions exit is taken only at exactly 1x1 with quality <=
\* min_quality; an over-target encode of a larger image at quality <=
\* min_quality resizes it to strictly smaller dimensions instead.
C18_ExitOnlyAtOneByOne ==
    /\ [](pc \in {"loop", "exit"} => (width >= 1 /\ height >= 1))
    /\ []((pc = "exit" /\ note = NoteLimit) =>
            (width = 1 /\ height = 1 /\ quality <= min_quality))
    /\ [][(pc = "loop" /\ quality <= min_quality
            /\ last_size' > target_size /\ <<width, height>> # <<1, 1>>) =>
                /\ pc' = "loop"
                /\ width' <= width /\ height' <= height
                /\ width' < width \/ height' < height]_vars

\* the 3x2 image was shrunk to 1x1 and the loop gave up there
C18_Witness ==
    /\ pc = "exit"
    /\ note = NoteLimit
    /\ orig_dims = <<3, 2>>
    /\ <<width, height>> = <<1, 1>>
    /\ resize_step = <<9, 10>>

\* C19: a result with succeeded = false carries the loop's "cannot compress
\* further" note; the best-effort note and the unknown-failure result are
\* never produced (the loop never exits without a buffer); succeeded is true
\* exactly when the loop exited through the accept branch, that is when its
\* last encode was <= target_size.
C19_FailureCarriesLoopNote ==
    /\ pc = "exit" => last_buffer # None
    /\ \A i \in DOMAIN results :
        /\ results[i].note.text \notin {"best_effort", "unknown"}
        /\ ~results[i].succeeded => results[i].note = NoteLimit
        /\ results[i].succeeded => results[i].note.text # "limit"
    /\ Returned => (LastResult.succeeded <=> last_size <= target_size)

\* a JPEG that could not be brought under target_size after several attempts
C19_Witness ==
    /\ Returned
    /\ ~LastResult.succeeded
    /\ LastResult.note = NoteLimit
    /\ img_format = OutputFormat
    /\ attempts >= 2

\* C20 as stated: for every result, final_size <= original_size.
C20_NeverEnlarges ==
    \A i \in DOMAIN results :
        results[i].final_size <= results[i].original_size

\* C20 amended: a result with succeeded = true has final_size <= target_size,
\* hence final_size <= original_size whenever original_size >= target_size;
\* a file that was smaller than target_size may come out larger.
C20_SuccessWithinTarget ==
    \A i \in DOMAIN results :
        results[i].succeeded =>
            /\ results[i].final_size <= target_size
            /\ results[i].original_size >= target_size =>
                results[i].final_size <= results[i].original_size

\* a file above target_size was brought under it
C20_Witness ==
    /\ Returned
    /\ LastResult.succeeded
    /\ LastResult.original_size > target_size
    /\ LastResult.final_size < LastResult.original_size
====
